---- MODULE Spec2Model ----
(***************************************************************************)
(* Drywall and Insulation Estimator (Drywall_and_Insulation_Estimator.py). *)
(*                                                                         *)
(* The program is a Streamlit script: every change of a widget re-runs the *)
(* whole script, which reads the widget values and recomputes every        *)
(* result.  The state is therefore the widget state (keyed widgets live in *)
(* session state under their key, the others are identified by their       *)
(* label) together with the results of the last script run.  A change of a *)
(* widget is one action (SetKeyed, SetPlain): it sets the value and        *)
(* re-runs the script; each disjunct of a Next operates one widget.        *)
(*                                                                         *)
(* Numbers.  The program computes with Python floats and ints.  They are   *)
(* modelled as exact rationals <<n, d>> in lowest terms with d > 0, so     *)
(* that every formula of the source is computed as written (no rounding of *)
(* the binary representation is modelled).  <<0, 0>> stands for a raised   *)
(* ZeroDivisionError and propagates through every operation.               *)
(***************************************************************************)
EXTENDS Integers, Sequences, FiniteSets, TLC

VARIABLES
    ss,     \* st.session_state: key -> value of every keyed widget rendered in the last run
    w,      \* values of the widgets without a key, by the name of the variable they are read into
    dw,     \* what run_drywall_estimator computed in the last run
    ins,    \* what run_insulation_estimator computed in the last run
    lib,    \* the optional libraries the imports found: [plt, rl_canvas]
    pdf     \* the canvas of insulation_estimate_output.pdf: position of the loop, lines drawn

vars == <<ss, w, dw, ins, lib, pdf>>

(***************************************************************************)
(* Arithmetic                                                              *)
(***************************************************************************)
Abs(n) == IF n < 0 THEN -n ELSE n

RECURSIVE GCD(_, _)
GCD(a, b) == IF b = 0 THEN a ELSE GCD(b, a % b)

ZeroDivisionError == <<0, 0>>

IsErr(x) == x[2] = 0

Norm(n, d) ==
    LET g == GCD(Abs(n), Abs(d))
        s == IF d < 0 THEN -1 ELSE 1
    IN  <<(s * n) \div g, (s * d) \div g>>

R(n) == <<n, 1>>

Frac(n, d) == Norm(n, d)

Zero == R(0)

One == R(1)

\* (whole numbers are added and multiplied directly; the result is the same)
\* the sum over the least common denominator, g the gcd of the two denominators
AddFrac(x, y, g) ==
    Norm(x[1] * (y[2] \div g) + y[1] * (x[2] \div g), (x[2] \div g) * y[2])

Add(x, y) ==
    IF IsErr(x) \/ IsErr(y) THEN ZeroDivisionError
    ELSE IF x[2] = 1 /\ y[2] = 1 THEN <<x[1] + y[1], 1>>
    ELSE AddFrac(x, y, GCD(x[2], y[2]))

Neg(x) == <<-x[1], x[2]>>

Sub(x, y) == Add(x, Neg(y))

\* the factors are reduced crosswise before multiplying, to keep the products small
MulFrac(x, y, g1, g2) ==
    <<(x[1] \div g1) * (y[1] \div g2), (x[2] \div g2) * (y[2] \div g1)>>

Mul(x, y) ==
    IF IsErr(x) \/ IsErr(y) THEN ZeroDivisionError
    ELSE IF x[2] = 1 /\ y[2] = 1 THEN <<x[1] * y[1], 1>>
    ELSE MulFrac(x, y, GCD(Abs(x[1]), y[2]), GCD(Abs(y[1]), x[2]))

Div(x, y) ==
    IF IsErr(x) \/ IsErr(y) \/ y[1] = 0 THEN ZeroDivisionError
    ELSE Mul(x, IF y[1] < 0 THEN <<-y[2], -y[1]>> ELSE <<y[2], y[1]>>)

\* x < y, compared over the least common denominator (g as in AddFrac)
LtFrac(x, y, g) == x[1] * (y[2] \div g) < y[1] * (x[2] \div g)

Lt(x, y) == IF x[2] = y[2] THEN x[1] < y[1] ELSE LtFrac(x, y, GCD(x[2], y[2]))

Le(x, y) == ~Lt(y, x)

Gt(x, y) == Lt(y, x)

Ge(x, y) == Le(y, x)

Max(x, y) ==
    IF IsErr(x) \/ IsErr(y) THEN ZeroDivisionError
    ELSE IF Gt(y, x) THEN y ELSE x

Floor(x) == IF IsErr(x) THEN ZeroDivisionError ELSE R(x[1] \div x[2])

Ceil(x) == IF IsErr(x) THEN ZeroDivisionError ELSE R(-((-x[1]) \div x[2]))

RECURSIVE ISqrtFrom(_, _)
ISqrtFrom(n, r) == IF (r + 1) * (r + 1) > n THEN r ELSE ISqrtFrom(n, r + 1)

\* the largest r with r * r <= n
ISqrt(n) == ISqrtFrom(n, 0)

\* math.sqrt: exact on the squares of rationals, rounded down to a multiple of 1/d
\* elsewhere (the inputs the model draws have rational roots)
Sqrt(x) == IF IsErr(x) THEN ZeroDivisionError ELSE Norm(ISqrt(x[1] * x[2]), x[2])

RECURSIVE SumSeq(_)
SumSeq(q) == IF q = <<>> THEN Zero ELSE Add(q[1], SumSeq(Tail(q)))

FT2_TO_M2 == Frac(9290304, 100000000)

(***************************************************************************)
(* Widgets                                                                 *)
(***************************************************************************)
\* key=f"{name}_{i}" and key=f"{name}_{i}_{j}"
Key(name, i) == <<name, i>>

Key2(name, i, j) == <<name, i, j>>

WALL_HEIGHT_PRESETS == <<"8 ft", "9 ft", "10 ft", "12 ft", "14 ft", "Custom">>

DOOR_PRESETS ==
    [c \in {"24 x 80 in", "28 x 80 in", "30 x 80 in", "32 x 80 in", "36 x 80 in"} |->
        CASE c = "24 x 80 in" -> <<Frac(24, 12), Frac(80, 12)>>
          [] c = "28 x 80 in" -> <<Frac(28, 12), Frac(80, 12)>>
          [] c = "30 x 80 in" -> <<Frac(30, 12), Frac(80, 12)>>
          [] c = "32 x 80 in" -> <<Frac(32, 12), Frac(80, 12)>>
          [] c = "36 x 80 in" -> <<Frac(36, 12), Frac(80, 12)>>]

\* float(h_choice.split()[0])
PresetFeet(c) ==
    CASE c = "8 ft" -> R(8)
      [] c = "9 ft" -> R(9)
      [] c = "10 ft" -> R(10)
      [] c = "12 ft" -> R(12)
      [] c = "14 ft" -> R(14)

default_wall_h(u) ==
    IF u.default_h_choice = "Custom" THEN u.default_wall_h_custom
    ELSE PresetFeet(u.default_h_choice)

\* the preset a room's height selectbox starts on: f"{int(default_wall_h)} ft" when
\* that is a preset, otherwise "Custom"
default_idx(u) ==
    LET f == Floor(default_wall_h(u))
        hit == {i \in 1..5 : PresetFeet(WALL_HEIGHT_PRESETS[i]) = f}
    IN  IF hit # {} THEN CHOOSE i \in hit : TRUE ELSE Len(WALL_HEIGHT_PRESETS)

\* the value a keyed widget takes the first time it is rendered
WidgetDefault(u, k) ==
    CASE k[1] = "name" -> <<"Room", k[2] + 1>>
      [] k[1] \in {"len", "wid", "win_w", "win_h", "door_w_in", "door_h_in",
                   "hp_h", "hp_a", "wd", "ht"} -> Zero
      [] k[1] = "h_choice" -> WALL_HEIGHT_PRESETS[default_idx(u)]
      [] k[1] = "h" -> default_wall_h(u)
      [] k[1] = "ceil_inc" -> TRUE
      [] k[1] \in {"win_has", "door_has"} -> FALSE
      [] k[1] \in {"w_count", "d_count"} -> 1
      [] k[1] = "door_choice" -> "30 x 80 in"

\* what a keyed widget returns in a run: its stored value, or its default
Val(s, u, k) == IF k \in DOMAIN s THEN s[k] ELSE WidgetDefault(u, k)

(***************************************************************************)
(* run_drywall_estimator: the rooms                                        *)
(***************************************************************************)
\* waste_pct = st.number_input("Waste %", ...) if include_waste else 0.0
waste_pct(u) == IF u.include_waste THEN u.waste_pct ELSE Zero

room_height(s, u, i) ==
    IF Val(s, u, Key("h_choice", i)) = "Custom" THEN Val(s, u, Key("h", i))
    ELSE PresetFeet(Val(s, u, Key("h_choice", i)))

\* the first n passes of "for w in range(num_windows)": windows.append((w_w, w_h))
RECURSIVE WindowsLoop(_, _, _, _)
WindowsLoop(s, u, i, n) ==
    IF n = 0 THEN <<>>
    ELSE Append(WindowsLoop(s, u, i, n - 1),
                <<Val(s, u, Key2("win_w", i, n - 1)), Val(s, u, Key2("win_h", i, n - 1))>>)

\* the list of (width, height) of the room's windows, in feet
room_windows(s, u, i) ==
    IF Val(s, u, Key("win_has", i)) THEN WindowsLoop(s, u, i, Val(s, u, Key("w_count", i)))
    ELSE <<>>

\* (d_w, d_h) of door d of room i: the custom inches / 12, or the preset
door_size(s, u, i, d) ==
    IF Val(s, u, Key2("door_choice", i, d)) = "Custom"
    THEN <<Div(Val(s, u, Key2("door_w_in", i, d)), R(12)),
           Div(Val(s, u, Key2("door_h_in", i, d)), R(12))>>
    ELSE DOOR_PRESETS[Val(s, u, Key2("door_choice", i, d))]

\* the first n passes of "for d in range(num_doors)": doors.append((d_w, d_h))
RECURSIVE DoorsLoop(_, _, _, _)
DoorsLoop(s, u, i, n) ==
    IF n = 0 THEN <<>>
    ELSE Append(DoorsLoop(s, u, i, n - 1), door_size(s, u, i, n - 1))

\* the list of (width, height) of the room's doors, in feet
room_doors(s, u, i) ==
    IF Val(s, u, Key("door_has", i)) THEN DoorsLoop(s, u, i, Val(s, u, Key("d_count", i)))
    ELSE <<>>

\* the keyed widgets room i renders
RoomKeys(s, u, i) ==
    {Key("name", i), Key("len", i), Key("wid", i), Key("h_choice", i),
     Key("ceil_inc", i), Key("win_has", i), Key("door_has", i)}
    \cup (IF Val(s, u, Key("h_choice", i)) = "Custom" THEN {Key("h", i)} ELSE {})
    \cup (IF Val(s, u, Key("win_has", i))
          THEN {Key("w_count", i)}
               \cup {Key2("win_w", i, n) : n \in 0..(Val(s, u, Key("w_count", i)) - 1)}
               \cup {Key2("win_h", i, n) : n \in 0..(Val(s, u, Key("w_count", i)) - 1)}
          ELSE {})
    \cup (IF Val(s, u, Key("door_has", i))
          THEN {Key("d_count", i)}
               \cup {Key2("door_choice", i, n) : n \in 0..(Val(s, u, Key("d_count", i)) - 1)}
               \cup UNION {IF Val(s, u, Key2("door_choice", i, n)) = "Custom"
                           THEN {Key2("door_w_in", i, n), Key2("door_h_in", i, n)}
                           ELSE {} : n \in 0..(Val(s, u, Key("d_count", i)) - 1)}
          ELSE {})

perimeter(length, width) == Mul(R(2), Add(length, width))

wall_area_gross(length, width, height) == Mul(perimeter(length, width), height)

\* sum(w * h for w, h in openings)
RECURSIVE SumAreas(_)
SumAreas(openings) ==
    IF openings = <<>> THEN Zero
    ELSE Add(Mul(openings[1][1], openings[1][2]), SumAreas(Tail(openings)))

openings_area(windows, doors) == Add(SumAreas(windows), SumAreas(doors))

\* the difference of the two areas, without the clamp at 0
wall_area_net_unclamped(gross, openings) == Sub(gross, openings)

wall_area_net(gross, openings) == Max(Sub(gross, openings), Zero)

\* a ceiling as long as the two sides together
ceiling_area_of_sides(length, width, include_ceiling) ==
    IF include_ceiling THEN Add(length, width) ELSE Zero

ceiling_area(length, width, include_ceiling) ==
    IF include_ceiling THEN Mul(length, width) ELSE Zero

total_area_ft2(net, ceiling) == Add(net, ceiling)

waste_multiplier(pct) == Add(One, Div(pct, R(100)))

total_with_waste_ft2(total, pct) == Mul(total, waste_multiplier(pct))

\* rows = math.floor((width * 12) / rc_spacing_in) + 1; the room adds rows * length
rc_room_lf(u, length, width, include_ceiling) ==
    IF u.include_resilient_channel /\ include_ceiling /\ Gt(width, Zero) /\ Gt(length, Zero)
    THEN Mul(Add(Floor(Div(Mul(width, R(12)), R(u.rc_spacing_in))), One), length)
    ELSE Zero

\* the row appended to rooms_data
RoomTotals(u, length, width, height, net, ceil) ==
    [length_ft |-> length,
     width_ft |-> width,
     height_ft |-> height,
     perimeter_ft |-> perimeter(length, width),
     wall_area_net_ft2 |-> net,
     ceiling_area_ft2 |-> ceil,
     total_area_ft2 |-> total_area_ft2(net, ceil),
     total_with_waste_ft2 |-> total_with_waste_ft2(total_area_ft2(net, ceil), waste_pct(u))]

\* the "Areas" block of the room loop
RoomAreas(u, length, width, height, inc, windows, doors) ==
    RoomTotals(u, length, width, height,
               wall_area_net(wall_area_gross(length, width, height),
                             openings_area(windows, doors)),
               ceiling_area(length, width, inc))

\* one pass of the room loop: the widgets of room i are read, then its areas computed
RoomRow(s, u, i) ==
    RoomAreas(u, Val(s, u, Key("len", i)), Val(s, u, Key("wid", i)), room_height(s, u, i),
              Val(s, u, Key("ceil_inc", i)), room_windows(s, u, i), room_doors(s, u, i))

\* the first n passes of "for i in range(int(room_count))": rooms_data.append({...})
RECURSIVE RoomLoop(_, _, _)
RoomLoop(s, u, n) ==
    IF n = 0 THEN <<>> ELSE Append(RoomLoop(s, u, n - 1), RoomRow(s, u, n - 1))

rooms_data(s, u) == RoomLoop(s, u, u.room_count)

\* rc_total_lf after the first n passes of the room loop
RECURSIVE RcLoop(_, _, _)
RcLoop(s, u, n) ==
    IF n = 0 THEN Zero
    ELSE Add(RcLoop(s, u, n - 1),
             rc_room_lf(u, Val(s, u, Key("len", n - 1)), Val(s, u, Key("wid", n - 1)),
                        Val(s, u, Key("ceil_inc", n - 1))))

\* rc_total_lf when the room loop is left
rc_loop_lf(s, u) == RcLoop(s, u, u.room_count)

\* df[column]
RECURSIVE Column(_, _)
Column(rows, column) ==
    IF rows = <<>> THEN <<>> ELSE <<rows[1][column]>> \o Column(Tail(rows), column)

(***************************************************************************)
(* run_drywall_estimator: high parts                                       *)
(***************************************************************************)
HP_MIN_HEIGHT == 10

HP_MIN_AREA == 64

\* a part that passes either threshold
QualifiesEither(hp_height, hp_area) ==
    Gt(hp_height, R(HP_MIN_HEIGHT)) \/ Gt(hp_area, R(HP_MIN_AREA))

Qualifies(hp_height, hp_area) ==
    Gt(hp_height, R(HP_MIN_HEIGHT)) /\ Gt(hp_area, R(HP_MIN_AREA))

\* the loop over range(num_high_parts), from part hp on, with the two accumulators
RECURSIVE HighPartsLoop(_, _, _, _)
HighPartsLoop(s, u, hp, acc) ==
    IF hp >= u.num_high_parts THEN acc
    ELSE LET hp_height == Val(s, u, Key("hp_h", hp))
             hp_area == Val(s, u, Key("hp_a", hp))
         IN  HighPartsLoop(s, u, hp + 1,
                IF Qualifies(hp_height, hp_area)
                THEN [qualifying_hp_area_ft2 |-> Add(acc.qualifying_hp_area_ft2, hp_area),
                      qualifying_hp_count |-> acc.qualifying_hp_count + 1]
                ELSE acc)

HighParts(s, u) ==
    HighPartsLoop(s, u, 0, [qualifying_hp_area_ft2 |-> Zero, qualifying_hp_count |-> 0])

HighPartKeys(u) ==
    {Key("hp_h", hp) : hp \in 0..(u.num_high_parts - 1)}
    \cup {Key("hp_a", hp) : hp \in 0..(u.num_high_parts - 1)}

\* every key run_drywall_estimator registers in a run
DrywallKeys(s, u) ==
    UNION {RoomKeys(s, u, i) : i \in 0..(u.room_count - 1)} \cup HighPartKeys(u)

(***************************************************************************)
(* run_drywall_estimator: summary, takeoff, costs, labour, totals          *)
(***************************************************************************)
\* a key of st.session_state that carries no index
PlainKey(name) == <<name>>

sheet_area(sheet_size) == IF sheet_size = "4x8 (32 ft^2)" THEN R(32) ELSE R(48)

\* the whole sheets only
sheets_rounded_down(total_waste, area) ==
    IF Gt(area, Zero) THEN Floor(Div(total_waste, area)) ELSE Zero

sheets(total_waste, area) ==
    IF Gt(area, Zero) THEN Ceil(Div(total_waste, area)) ELSE Zero

mud_gal(total_waste, per_1000) == Mul(Div(total_waste, R(1000)), per_1000)

mud_pails(gal, pail_gal) ==
    IF Gt(pail_gal, Zero) THEN Ceil(Div(gal, pail_gal)) ELSE Zero

tape_rolls(total_waste, sqft_per_roll) ==
    IF Gt(sqft_per_roll, Zero) THEN Ceil(Div(total_waste, sqft_per_roll)) ELSE Zero

screws_qty(total_waste, per_sqft) == Ceil(Mul(total_waste, per_sqft))

screws_boxes(qty, per_box) ==
    IF Gt(per_box, Zero) THEN Ceil(Div(qty, per_box)) ELSE Zero

corner_bead_lf(total_waste, lf_per_1000) == Mul(Div(total_waste, R(1000)), lf_per_1000)

corner_bead_pcs(lf, piece_len_ft) ==
    IF Gt(piece_len_ft, Zero) THEN Ceil(Div(lf, piece_len_ft)) ELSE Zero

\* rc_total_lf after the takeoff: 0.0 if len(df) == 0 else sum([]); what the room
\* loop accumulated is dropped here
rc_total_lf(rooms) == IF Len(rooms) = 0 THEN Zero ELSE SumSeq(<<>>)

rc_pieces == R(0)

\* materials_breakdown: (label, quantity, cost)
materials_breakdown(u, q) ==
    <<<<"Board (sheets)", q.sheets, Mul(q.sheets, u.cost_per_sheet)>>,
      <<"Mud (pails)", q.mud_pails, Mul(q.mud_pails, u.cost_mud_pail)>>,
      <<"Tape (rolls)", q.tape_rolls, Mul(q.tape_rolls, u.cost_tape_roll)>>,
      <<"Screws (boxes)", q.screws_boxes, Mul(q.screws_boxes, u.cost_screws_box)>>,
      <<"Corner bead (pieces)", q.corner_bead_pcs,
        Mul(q.corner_bead_pcs, u.cost_corner_bead_piece)>>,
      <<"Pot lights (qty)", u.pot_light_count, Mul(u.pot_light_count, u.pot_light_cost)>>>>

\* sum(v for _, _, v in materials_breakdown)
material_subtotal(breakdown) == SumSeq(Column(breakdown, 3))

charge_area_ft2(total_waste, hp_area) == Add(total_waste, hp_area)

\* the per-m^2 rate preferred to the per-ft^2 rate
labour_area_cost_metric_first(charge_ft2, rate_sqft, rate_sqm) ==
    IF Gt(rate_sqm, Zero) THEN Mul(Mul(charge_ft2, FT2_TO_M2), rate_sqm)
    ELSE IF Gt(rate_sqft, Zero) THEN Mul(charge_ft2, rate_sqft)
    ELSE Zero

labour_area_cost(charge_ft2, rate_sqft, rate_sqm) ==
    IF Gt(rate_sqft, Zero) THEN Mul(charge_ft2, rate_sqft)
    ELSE IF Gt(rate_sqm, Zero) THEN Mul(Mul(charge_ft2, FT2_TO_M2), rate_sqm)
    ELSE Zero

\* st.session_state.get(name, 0.0) if name in st.session_state else the local value
session_or_local(s, name, local) ==
    IF PlainKey(name) \in DOMAIN s THEN s[PlainKey(name)] ELSE local

\* the per-ft^2 rate preferred to the flat rate
labour_high_parts_cost_by_area(count, area, flat, rate_sqft) ==
    IF Gt(rate_sqft, Zero) THEN Mul(area, rate_sqft) ELSE Mul(R(count), flat)

labour_high_parts_cost(count, area, flat, rate_sqft) ==
    IF count > 0 /\ Gt(flat, Zero) THEN Mul(R(count), flat)
    ELSE Mul(area, rate_sqft)

\* the tax percentage added as an amount
total_with_tax_added(subtotal, tax_pct_val) ==
    IF Gt(tax_pct_val, Zero) THEN Add(subtotal, tax_pct_val) ELSE subtotal

total_with_tax(subtotal, tax_pct_val) ==
    IF Gt(tax_pct_val, Zero) THEN Mul(subtotal, Add(One, Div(tax_pct_val, R(100))))
    ELSE subtotal

\* the quantities of the material takeoff
Takeoff(u, total_waste) ==
    [sheets |-> sheets(total_waste, sheet_area(u.sheet_size)),
     mud_gal |-> mud_gal(total_waste, u.mud_gal_per_1000),
     mud_pails |-> mud_pails(mud_gal(total_waste, u.mud_gal_per_1000), u.mud_pail_gal),
     tape_rolls |-> tape_rolls(total_waste, u.tape_sqft_per_roll),
     screws_qty |-> screws_qty(total_waste, u.screws_per_sqft),
     screws_boxes |-> screws_boxes(screws_qty(total_waste, u.screws_per_sqft),
                                   u.screws_per_box),
     corner_bead_lf |-> corner_bead_lf(total_waste, u.corner_bead_lf_per_1000),
     corner_bead_pcs |-> corner_bead_pcs(corner_bead_lf(total_waste, u.corner_bead_lf_per_1000),
                                         u.corner_bead_piece_len_ft)]

\* true when a division by zero was raised while computing one of the values
Raised(values) == \E v \in values : IsErr(v)

\* "Summary": the room table, its two sums, and the accumulators of the two loops
Summary(rooms, rc_lf, hp) ==
    [rooms_data |-> rooms,
     rc_loop_lf |-> rc_lf,
     qualifying_hp_area_ft2 |-> hp.qualifying_hp_area_ft2,
     qualifying_hp_count |-> hp.qualifying_hp_count,
     total_ft2 |-> SumSeq(Column(rooms, "total_area_ft2")),
     total_waste_ft2 |-> SumSeq(Column(rooms, "total_with_waste_ft2"))]

\* the resilient channel carried out of the room loop, cut in pieces and charged
MaterialCostsWithChannel(u, d, q) ==
    [takeoff |-> q,
     rc_pieces |-> Ceil(Div(d.rc_loop_lf, u.rc_piece_length_ft)),
     rc_total_lf |-> d.rc_loop_lf,
     materials_breakdown |-> materials_breakdown(u, q),
     material_subtotal |->
        Add(material_subtotal(materials_breakdown(u, q)),
            Mul(Ceil(Div(d.rc_loop_lf, u.rc_piece_length_ft)), u.cost_rc_piece))]

\* "Material Takeoff" and "Materials cost", from the takeoff q
MaterialCosts(u, d, q) ==
    [takeoff |-> q,
     rc_pieces |-> rc_pieces,
     rc_total_lf |-> rc_total_lf(d.rooms_data),
     materials_breakdown |-> materials_breakdown(u, q),
     material_subtotal |-> material_subtotal(materials_breakdown(u, q))]

Materials(u, d) == d @@ MaterialCosts(u, d, Takeoff(u, d.total_waste_ft2))

\* "Labour area" and "High-parts labour"
Labour(s, u, d) ==
    d @@
    [charge_area_ft2 |-> charge_area_ft2(d.total_waste_ft2, d.qualifying_hp_area_ft2),
     labour_area_cost |->
        labour_area_cost(charge_area_ft2(d.total_waste_ft2, d.qualifying_hp_area_ft2),
                         u.labour_rate_sqft, u.labour_rate_sqm),
     labour_high_parts_cost |->
        labour_high_parts_cost(
            d.qualifying_hp_count, d.qualifying_hp_area_ft2,
            session_or_local(s, "labour_high_part_flat", u.labour_high_part_flat),
            session_or_local(s, "labour_high_part_rate_sqft", u.labour_high_part_rate_sqft))]

labour_subtotal(d) == Add(d.labour_area_cost, d.labour_high_parts_cost)

subtotal_no_tax(d) == Add(d.material_subtotal, labour_subtotal(d))

\* the totals; tax_pct_val is the local tax_pct
Totals(u, d) ==
    d @@
    [labour_subtotal |-> labour_subtotal(d),
     subtotal_no_tax |-> subtotal_no_tax(d),
     total_with_tax |-> total_with_tax(subtotal_no_tax(d), u.tax_pct),
     cash_price |-> subtotal_no_tax(d),
     status |-> IF Raised({d.takeoff.sheets, d.takeoff.mud_pails, d.takeoff.tape_rolls,
                           d.takeoff.screws_boxes, d.takeoff.corner_bead_pcs,
                           subtotal_no_tax(d)})
                THEN "ZeroDivisionError" ELSE "ok"]

\* one run of run_drywall_estimator over the widget state (s, u)
run_drywall_estimator(s, u) ==
    Totals(u, Labour(s, u, Materials(u, Summary(rooms_data(s, u), rc_loop_lf(s, u), HighParts(s, u)))))

(***************************************************************************)
(* run_insulation_estimator                                                *)
(***************************************************************************)
Spec_(cov, pcs) == [coverage_per_bag |-> cov, pieces_per_bag |-> pcs]

\* MATERIAL_SPECS[r_value]['widths'][width]
MATERIAL_SPECS ==
    [r \in {"R12", "R14", "R20", "R22", "R28", "R31", "R40"} |->
        CASE r = "R12" -> (15 :> Spec_(R(100), 20) @@ 23 :> Spec_(Frac(1533, 10), 20))
          [] r = "R14" -> (15 :> Spec_(Frac(783, 10), 16) @@ 23 :> Spec_(Frac(1201, 10), 16))
          [] r = "R20" -> (15 :> Spec_(R(80), 16) @@ 23 :> Spec_(Frac(1227, 10), 16))
          [] r = "R22" -> (15 :> Spec_(R(49), 10) @@ 23 :> Spec_(Frac(751, 10), 10))
          [] r = "R28" -> (16 :> Spec_(Frac(533, 10), 10) @@ 24 :> Spec_(R(80), 10))
          [] r = "R31" -> (16 :> Spec_(Frac(427, 10), 8) @@ 24 :> Spec_(R(64), 8))
          [] r = "R40" -> (16 :> Spec_(R(32), 6) @@ 24 :> Spec_(R(48), 6))]

\* the keyed widgets of cathedral section i, in the order they are created
SectionKeys(i) == {Key("len", i), Key("wd", i), Key("ht", i)}

InsulationKeys(u) == UNION {SectionKeys(i) : i \in 0..(u.num_cat - 1)}

\* cat_sections: (length, base_width, height_above) per section
RECURSIVE SectionLoop(_, _, _)
SectionLoop(s, u, n) ==
    IF n = 0 THEN <<>>
    ELSE Append(SectionLoop(s, u, n - 1),
                <<Val(s, u, Key("len", n - 1)), Val(s, u, Key("wd", n - 1)),
                  Val(s, u, Key("ht", n - 1))>>)

cat_sections(s, u) == SectionLoop(s, u, u.num_cat)

wall_area(linear_feet, height) == Mul(linear_feet, height)

wall_bags(area, cov) == IF Gt(cov, Zero) THEN Ceil(Div(area, cov)) ELSE Zero

slope(bw, rise) == Sqrt(Max(Add(Mul(Div(bw, R(2)), Div(bw, R(2))), Mul(rise, rise)), Zero))

\* the loop "for length, bw, rise in cat_sections: total_cat_area += 2 * slope * length"
RECURSIVE total_cat_area(_)
total_cat_area(sections) ==
    IF sections = <<>> THEN Zero
    ELSE Add(Mul(Mul(R(2), slope(sections[1][2], sections[1][3])), sections[1][1]),
             total_cat_area(Tail(sections)))

\* the cathedral coverage without the slope-waste buffer
buffered_cov_plain(cs_cov) == IF Gt(cs_cov, Zero) THEN cs_cov ELSE Zero

buffered_cov(cs_cov) == IF Gt(cs_cov, Zero) THEN Mul(cs_cov, Frac(110, 100)) ELSE Zero

cat_bags(area, buffered) == IF Gt(buffered, Zero) THEN Ceil(Div(area, buffered)) ELSE Zero

\* the blown-in area without the clamp
ins_ceiling_area_unclamped(blow_sq, vault_sq) == Sub(blow_sq, vault_sq)

ins_ceiling_area(blow_sq, vault_sq) == Max(Sub(blow_sq, vault_sq), Zero)

\* the blown-in bags without the guard
ceiling_bags_unguarded(area, cov) == Ceil(Div(area, cov))

\* the guard is the truth value of the coverage: any non-zero number
ceiling_bags(area, cov) == IF cov # Zero THEN Ceil(Div(area, cov)) ELSE Zero

wall_batts(linear_feet, stud_spacing) ==
    IF stud_spacing # Zero THEN Ceil(Div(linear_feet, Div(stud_spacing, R(12)))) ELSE Zero

RECURSIVE cat_batts(_, _)
cat_batts(sections, spacing_in) ==
    IF sections = <<>> THEN <<>>
    ELSE <<IF spacing_in # Zero THEN Ceil(Div(sections[1][2], Div(spacing_in, R(12))))
           ELSE Zero>> \o cat_batts(Tail(sections), spacing_in)

\* "Materials", "Cathedrals" and "Ceiling": the three areas
EstimateAreas(s, u) ==
    [cat_sections |-> cat_sections(s, u),
     wall_area |-> wall_area(u.wall_linear_feet, u.wall_height),
     total_cat_area |-> total_cat_area(cat_sections(s, u)),
     ceiling_area |-> ins_ceiling_area(u.blow_sq, u.vault_sq)]

\* bags and batt counts
EstimateQuantities(u, wp, cp, d) ==
    d @@
    [wall_bags |-> wall_bags(d.wall_area, wp.coverage_per_bag),
     cat_bags |-> cat_bags(d.total_cat_area, buffered_cov(cp.coverage_per_bag)),
     ceiling_bags |-> ceiling_bags(d.ceiling_area, u.ceiling_cov_per_bag),
     wall_batts |-> wall_batts(u.wall_linear_feet, R(u.wall_stud_spacing)),
     cat_batts |-> cat_batts(d.cat_sections, R(u.cat_spacing_in))]

\* pieces, material costs, "Labour & surcharges"
EstimateCosts(u, wp, cp, d) ==
    d @@
    [wall_pieces |-> Mul(d.wall_bags, R(wp.pieces_per_bag)),
     wall_cost |-> Mul(d.wall_bags, u.wall_price_per_bag),
     cat_pieces |-> Mul(d.cat_bags, R(cp.pieces_per_bag)),
     cat_cost |-> Mul(d.cat_bags, u.cat_price_per_bag),
     ceiling_mat_cost |-> Mul(d.ceiling_bags, u.ceiling_price_per_bag),
     wall_lab |-> Mul(d.wall_area, u.wall_labour_rate),
     area_lab |-> Mul(Add(d.wall_area, d.total_cat_area), u.wall_labour_rate),
     ceil_lab |-> Add(Mul(u.ceiling_hourly, u.ceiling_hours), u.ceiling_flat_srchg),
     cat_surch |-> Mul(Add(Mul(u.cathedral_hourly, u.cathedral_hours), u.cathedral_flat),
                       R(u.num_cat))]

mat_total(d) == Add(Add(d.wall_cost, d.cat_cost), d.ceiling_mat_cost)

\* the wall area charged once
lab_total_wall_once(d) == Add(Add(d.area_lab, d.ceil_lab), d.cat_surch)

lab_total(d) == Add(Add(Add(d.wall_lab, d.area_lab), d.ceil_lab), d.cat_surch)

\* the 5% charged on the materials only
total_tax_on_materials(d) == Add(Mul(mat_total(d), Frac(105, 100)), lab_total(d))

total_tax(d) == Mul(Add(mat_total(d), lab_total(d)), Frac(105, 100))

total_buf(d) == Mul(total_tax(d), Frac(110, 100))

\* "Totals"
EstimateTotals(d) ==
    d @@
    [mat_total |-> mat_total(d),
     lab_total |-> lab_total(d),
     total_tax |-> total_tax(d),
     total_buf |-> total_buf(d),
     status |-> IF Raised({d.wall_bags, d.cat_bags, d.ceiling_bags, d.wall_batts}
                          \cup {d.cat_batts[n] : n \in 1..Len(d.cat_batts)})
                THEN "ZeroDivisionError" ELSE "ok"]

EstimateWith(u, wp, cp, d) ==
    EstimateTotals(EstimateCosts(u, wp, cp, EstimateQuantities(u, wp, cp, d)))

\* the body of "if st.button('Run Estimate'):" up to the totals
Estimate(s, u) ==
    EstimateWith(u, MATERIAL_SPECS[u.wall_r_value][u.wall_width],
                 MATERIAL_SPECS[u.cat_r_value][u.cat_width], EstimateAreas(s, u))

\* what a run shows when "Run Estimate" was not clicked in it
NoEstimate == [status |-> "idle"]

\* st.number_input(..., key=k) when k was already registered in this run: Streamlit
\* raises DuplicateWidgetID and the rest of the script is not run
DuplicateWidgetID == [status |-> "DuplicateWidgetID"]

\* the first section whose first keyed widget meets a key already registered in the
\* run, or -1
FirstDuplicate(u, registered) ==
    LET hit == {i \in 0..(u.num_cat - 1) : SectionKeys(i) \cap registered # {}}
    IN  IF hit = {} THEN -1 ELSE CHOOSE i \in hit : \A j \in hit : i <= j

\* one run of run_insulation_estimator over the widget state (s, u); registered: the
\* keys registered earlier in the same run; clicked: "Run Estimate" was pressed
run_insulation_estimator(s, u, registered, clicked) ==
    IF FirstDuplicate(u, registered) # -1
    THEN [keys |-> UNION {SectionKeys(i) : i \in 0..(FirstDuplicate(u, registered) - 1)},
          out |-> DuplicateWidgetID]
    ELSE [keys |-> InsulationKeys(u),
          out |-> IF clicked THEN Estimate(s, u) ELSE NoEstimate]

(***************************************************************************)
(* run_insulation_estimator: display and PDF export                        *)
(***************************************************************************)
\* both optional imports succeeded
Installed == [plt |-> TRUE, rl_canvas |-> TRUE]

\* what draw_cathedral_diagram shows: the figure, or the notice when plt is None
draw_cathedral_diagram(l) == IF l.plt THEN "pyplot" ELSE "info"

\* what draw_cost_breakdown_chart shows
\* the chart drawn without the "plt is None" guard: plt.subplots() on None
draw_cost_breakdown_chart_unguarded(l) == IF l.plt THEN "pyplot" ELSE "AttributeError"

draw_cost_breakdown_chart(l) == IF l.plt THEN "pyplot" ELSE "info"

\* what the PDF step shows
pdf_export(l) == IF l.rl_canvas THEN "download_button" ELSE "warning"

\* "Display" to "PDF Export": what Run Estimate shows after the totals d; a raised
\* error ends the run before
Display(l, d) ==
    IF d.status # "ok" THEN d
    ELSE d @@ [diagrams |-> [n \in 1..Len(d.cat_sections) |-> draw_cathedral_diagram(l)],
               chart |-> draw_cost_breakdown_chart(l),
               pdf_export |-> pdf_export(l)]

\* the lines of summary_text
SUMMARY_LINES == 20

\* the height of pagesizes.letter, in points
LETTER_HEIGHT == 792

\* no file written
NoPdf == [saved |-> FALSE]

\* the canvas when the loop over the n lines is entered: the title is drawn at
\* height - 50 and y is 30 below it
PdfOpen(n) ==
    [n |-> n, i |-> 0, page |-> 1, y |-> LETTER_HEIGHT - 50 - 30, drawn |-> <<>>,
     saved |-> FALSE]

\* y after a line was drawn at y: 20 lower, or the top of a new page
\* the page break taken only when the position has left the page
NextYLate(y) == IF y - 20 < 0 THEN LETTER_HEIGHT - 50 ELSE y - 20

NextY(y) == IF y - 20 < 50 THEN LETTER_HEIGHT - 50 ELSE y - 20

\* one pass of "for line in summary_text.split": line i + 1 is drawn at y, y goes
\* down by 20 and, when it is below 50, the page is shown and y is reset
PdfStep(c) ==
    [c EXCEPT !.i = @ + 1,
              !.drawn = Append(@, [line |-> c.i + 1, page |-> c.page, y |-> c.y]),
              !.page = IF c.y - 20 < 50 THEN @ + 1 ELSE @,
              !.y = NextY(c.y)]

\* c.save()
PdfSave(c) == [c EXCEPT !.saved = TRUE]

\* the loop from the canvas c on, then c.save()
RECURSIVE PdfLoop(_)
PdfLoop(c) == IF c.i = c.n THEN PdfSave(c) ELSE PdfLoop(PdfStep(c))

\* the file after a run that computed d: written anew when the estimate ran and
\* reportlab is there, left as it was otherwise
PdfExport(l, d, file) ==
    IF d.status = "ok" /\ l.rl_canvas THEN PdfLoop(PdfOpen(SUMMARY_LINES)) ELSE file

(***************************************************************************)
(* The script                                                              *)
(***************************************************************************)
\* the value every widget without a key starts with
Defaults ==
    [include_waste |-> TRUE, waste_pct |-> R(10),
     mud_gal_per_1000 |-> Frac(95, 10), mud_pail_gal |-> Frac(45, 10),
     tape_sqft_per_roll |-> R(1200), screws_per_sqft |-> Frac(125, 100),
     screws_per_box |-> R(1000), corner_bead_lf_per_1000 |-> R(50),
     corner_bead_piece_len_ft |-> R(8), sheet_size |-> "4x8 (32 ft^2)",
     include_resilient_channel |-> FALSE, rc_spacing_in |-> 16,
     rc_piece_length_ft |-> R(12),
     cost_per_sheet |-> Zero, cost_mud_pail |-> Zero, cost_tape_roll |-> Zero,
     cost_screws_box |-> Zero, cost_corner_bead_piece |-> Zero, cost_rc_piece |-> Zero,
     pot_light_count |-> Zero, pot_light_cost |-> Zero,
     labour_rate_sqft |-> Zero, labour_rate_sqm |-> Zero, tax_pct |-> R(13),
     labour_high_part_flat |-> Zero, labour_high_part_rate_sqft |-> Zero,
     room_count |-> 3, default_h_choice |-> "8 ft", default_wall_h_custom |-> R(8),
     num_high_parts |-> 0,
     wall_r_value |-> "R12", wall_width |-> 15, wall_price_per_bag |-> Zero,
     cat_r_value |-> "R12", cat_width |-> 15, cat_price_per_bag |-> Zero,
     ceiling_cov_per_bag |-> Zero, ceiling_price_per_bag |-> Zero,
     wall_linear_feet |-> Zero, wall_height |-> Zero, wall_stud_spacing |-> 16,
     num_cat |-> 1, cat_spacing_in |-> 16, blow_sq |-> Zero, vault_sq |-> Zero,
     wall_labour_rate |-> Zero, ceiling_hourly |-> Zero, ceiling_hours |-> Zero,
     ceiling_flat_srchg |-> Zero, cathedral_hourly |-> Zero, cathedral_hours |-> Zero,
     cathedral_flat |-> Zero]

\* the session state a run leaves: the value of every keyed widget it rendered (the
\* state of a widget that was not rendered is dropped)
Rendered(s, u, keys) == [k \in keys |-> Val(s, u, k)]

\* the script: both estimators, one after the other, in the same run
AppRun(s, u, clicked) ==
    LET registered == DrywallKeys(s, u)
        i == run_insulation_estimator(s, u, registered, clicked)
    IN  [ss |-> Rendered(s, u, registered \cup i.keys),
         dw |-> run_drywall_estimator(s, u),
         ins |-> i.out]

\* an estimator that the script executed does not call
NotRun == [status |-> "not_run"]

\* run_drywall_estimator called on its own
DrywallAlone(s, u) ==
    [ss |-> Rendered(s, u, DrywallKeys(s, u)),
     dw |-> run_drywall_estimator(s, u),
     ins |-> NotRun]

\* run_insulation_estimator called on its own: no key is registered before its own
InsulationAlone(s, u, clicked) ==
    LET i == run_insulation_estimator(s, u, {}, clicked)
    IN  [ss |-> Rendered(s, u, i.keys), dw |-> NotRun, ins |-> i.out]

\* the script of the session: the app, or the one estimator it was started with
Script(s, u, clicked) ==
    IF dw = NotRun THEN InsulationAlone(s, u, clicked)
    ELSE IF ins = NotRun THEN DrywallAlone(s, u)
    ELSE AppRun(s, u, clicked)

\* a script run that starts from the accumulators the run before it left
RerunCarrying(s, u, clicked) ==
    \E r \in {Script(s, u, clicked)} :
        /\ w' = u
        /\ ss' = r.ss
        /\ dw' = IF r.dw = NotRun THEN r.dw
                 ELSE [r.dw EXCEPT !.rooms_data = dw.rooms_data \o @,
                                   !.rc_loop_lf = Add(dw.rc_loop_lf, @)]
        /\ ins' = Display(lib, r.ins)
        /\ pdf' = PdfExport(lib, r.ins, pdf)
        /\ lib' = lib

\* a script run over the widget state (s, u) after a widget changed
Rerun(s, u, clicked) ==
    \E r \in {Script(s, u, clicked)} :
        /\ w' = u
        /\ ss' = r.ss
        /\ dw' = r.dw
        /\ ins' = Display(lib, r.ins)
        /\ pdf' = PdfExport(lib, r.ins, pdf)
        /\ lib' = lib

\* the first run, every widget on its default
Init ==
    \E r \in {AppRun(<<>>, Defaults, FALSE)} :
        /\ w = Defaults
        /\ ss = r.ss
        /\ dw = r.dw
        /\ ins = r.ins
        /\ lib = Installed
        /\ pdf = NoPdf

\* the first run of a session that calls one of the two estimators on its own
InitAlone ==
    \E r \in {DrywallAlone(<<>>, Defaults), InsulationAlone(<<>>, Defaults, FALSE)} :
        /\ w = Defaults
        /\ ss = r.ss
        /\ dw = r.dw
        /\ ins = r.ins
        /\ lib = Installed
        /\ pdf = NoPdf

\* the same first run in an installation with or without matplotlib and reportlab
InitOptional ==
    \E l \in [plt : BOOLEAN, rl_canvas : BOOLEAN], r \in {InsulationAlone(<<>>, Defaults, FALSE)} :
        /\ w = Defaults
        /\ ss = r.ss
        /\ dw = r.dw
        /\ ins = r.ins
        /\ lib = l
        /\ pdf = NoPdf

\* the first run of a session that calls run_insulation_estimator on its own
InitInsulation == InitAlone /\ dw = NotRun

\* the user changes the keyed widget k to v
SetKeyed(k, v) ==
    /\ k \in DOMAIN ss
    /\ ss[k] # v
    /\ Rerun([ss EXCEPT ![k] = v], w, FALSE)

\* the user changes the widget read into variable f to v
SetPlain(f, v) ==
    /\ w[f] # v
    /\ Rerun(ss, [w EXCEPT ![f] = v], FALSE)

(***************************************************************************)
(* Bounds: the rooms, windows and doors per room, and high parts whose     *)
(* widgets are operated (the script starts with room_count = 3)            *)
(***************************************************************************)
MaxRooms == 2

MaxWindows == 1

MaxDoors == 1

MaxHighParts == 2

\* the lines of the longest summary written to a PDF
MaxLines == 70

(***************************************************************************)
(* Spec: the rooms of a job (count, length, width, ceiling), the height of *)
(* the first room, the waste percentage and the sheet size                 *)
(***************************************************************************)
Next ==
    \/ \E n \in 1..3 : SetPlain("room_count", n)
    \/ \E i \in 0..(MaxRooms - 1), v \in {Zero, R(10)} : SetKeyed(Key("len", i), v)
    \/ \E i \in 0..(MaxRooms - 1), v \in {Zero, R(12)} : SetKeyed(Key("wid", i), v)
    \/ \E i \in 0..(MaxRooms - 1), b \in BOOLEAN : SetKeyed(Key("ceil_inc", i), b)
    \/ \E c \in {"8 ft", "10 ft"} : SetKeyed(Key("h_choice", 0), c)
    \/ \E v \in {Zero, R(10)} : w.include_waste /\ SetPlain("waste_pct", v)
    \/ \E c \in {"4x8 (32 ft^2)", "4x12 (48 ft^2)"} : SetPlain("sheet_size", c)

Spec == Init /\ [][Next]_vars

(***************************************************************************)
(* SpecRoom: the walls and the openings of one room, small enough for its  *)
(* openings to exceed its walls.  The room has up to MaxWindows + 1        *)
(* windows and MaxDoors + 1 doors; the sizes of the first MaxWindows       *)
(* windows and MaxDoors doors are entered, the others keep the widgets'    *)
(* defaults                                                                *)
(***************************************************************************)
NextRoom ==
    \/ \E v \in {Zero, R(2)} : SetKeyed(Key("len", 0), v)
    \/ \E v \in {Zero, R(3)} : SetKeyed(Key("wid", 0), v)
    \/ \E b \in BOOLEAN : SetKeyed(Key("win_has", 0), b)
    \/ \E n \in 1..(MaxWindows + 1) : SetKeyed(Key("w_count", 0), n)
    \/ \E j \in 0..(MaxWindows - 1), v \in {Zero, R(10)} : SetKeyed(Key2("win_w", 0, j), v)
    \/ \E j \in 0..(MaxWindows - 1), v \in {Zero, R(4)} : SetKeyed(Key2("win_h", 0, j), v)
    \/ \E b \in BOOLEAN : SetKeyed(Key("door_has", 0), b)
    \/ \E n \in 1..(MaxDoors + 1) : SetKeyed(Key("d_count", 0), n)
    \/ \E j \in 0..(MaxDoors - 1), c \in {"30 x 80 in", "Custom"} :
          SetKeyed(Key2("door_choice", 0, j), c)
    \/ \E j \in 0..(MaxDoors - 1), v \in {Zero, R(36)} : SetKeyed(Key2("door_w_in", 0, j), v)
    \/ \E j \in 0..(MaxDoors - 1), v \in {Zero, R(84)} : SetKeyed(Key2("door_h_in", 0, j), v)

SpecRoom == Init /\ [][NextRoom]_vars

(***************************************************************************)
(* SpecHighParts: the high parts and the two high-part labour rates        *)
(***************************************************************************)
NextHighParts ==
    \/ \E n \in 0..MaxHighParts : SetPlain("num_high_parts", n)
    \/ \E hp \in 0..(MaxHighParts - 1), v \in {R(10), R(11)} : SetKeyed(Key("hp_h", hp), v)
    \/ \E hp \in 0..(MaxHighParts - 1), v \in {R(64), R(70)} : SetKeyed(Key("hp_a", hp), v)
    \/ \E v \in {Zero, R(150)} : SetPlain("labour_high_part_flat", v)
    \/ \E v \in {Zero, R(2)} : SetPlain("labour_high_part_rate_sqft", v)

SpecHighParts == Init /\ [][NextHighParts]_vars

(***************************************************************************)
(* SpecPricing: one wall, one high part, the sheet cost, the two area      *)
(* labour rates and the tax                                                *)
(***************************************************************************)
NextPricing ==
    \/ \E v \in {Zero, R(10)} : SetKeyed(Key("len", 0), v)
    \/ \E n \in 0..1 : SetPlain("num_high_parts", n)
    \/ \E v \in {R(10), R(11)} : SetKeyed(Key("hp_h", 0), v)
    \/ \E v \in {R(80)} : SetKeyed(Key("hp_a", 0), v)
    \/ \E v \in {Zero, R(12)} : SetPlain("cost_per_sheet", v)
    \/ \E v \in {Zero, R(3)} : SetPlain("labour_rate_sqft", v)
    \/ \E v \in {Zero, R(625)} : SetPlain("labour_rate_sqm", v)
    \/ \E v \in {Zero, R(13), R(25)} : SetPlain("tax_pct", v)

SpecPricing == Init /\ [][NextPricing]_vars

(***************************************************************************)
(* SpecMaterials: one room with a ceiling, the unit costs, the pot lights  *)
(* and the resilient-channel options                                       *)
(***************************************************************************)
NextMaterials ==
    \/ \E v \in {R(10)} : SetKeyed(Key("len", 0), v)
    \/ \E v \in {R(12)} : SetKeyed(Key("wid", 0), v)
    \/ \E v \in {Zero, R(12)} : SetPlain("cost_per_sheet", v)
    \/ \E v \in {Zero, R(18)} : SetPlain("cost_mud_pail", v)
    \/ \E v \in {Zero, R(5)} : SetPlain("cost_tape_roll", v)
    \/ \E v \in {Zero, R(9)} : SetPlain("cost_screws_box", v)
    \/ \E v \in {Zero, R(4)} : SetPlain("cost_corner_bead_piece", v)
    \/ \E v \in {Zero, R(4)} : SetPlain("pot_light_count", v)
    \/ \E v \in {Zero, R(25)} : SetPlain("pot_light_cost", v)
    \/ \E b \in BOOLEAN : SetPlain("include_resilient_channel", b)
    \/ \E n \in {16, 24} : SetPlain("rc_spacing_in", n)
    \/ \E v \in {R(12), R(10)} : SetPlain("rc_piece_length_ft", v)
    \/ \E v \in {Zero, R(6)} : SetPlain("cost_rc_piece", v)

SpecMaterials == Init /\ [][NextMaterials]_vars

(***************************************************************************)
(* SpecAlone: each estimator called on its own; the sizes and rates its    *)
(* quantities are divided by, within the ranges of their widgets           *)
(***************************************************************************)
\* st.button("Run Estimate") pressed: the run it starts computes the estimate
RunEstimate == Rerun(ss, w, TRUE)

NextDrywallAlone ==
    \/ \E v \in {R(1), Frac(45, 10)} : SetPlain("mud_pail_gal", v)
    \/ \E v \in {R(600), R(1200)} : SetPlain("tape_sqft_per_roll", v)
    \/ \E v \in {R(500), R(1000)} : SetPlain("screws_per_box", v)
    \/ \E v \in {R(4), R(8)} : SetPlain("corner_bead_piece_len_ft", v)
    \/ \E v \in {Zero, R(10)} : SetKeyed(Key("len", 0), v)
    \/ \E c \in {"4x8 (32 ft^2)", "4x12 (48 ft^2)"} : SetPlain("sheet_size", c)

NextInsulationAlone ==
    \/ \E v \in {Zero, R(40)} : SetPlain("wall_linear_feet", v)
    \/ \E v \in {Zero, R(8)} : SetPlain("wall_height", v)
    \/ \E n \in {16, 24} : SetPlain("wall_stud_spacing", n)
    \/ \E n \in {16, 24} : SetPlain("cat_spacing_in", n)
    \/ \E v \in {Zero, R(10)} : SetKeyed(Key("len", 0), v)
    \/ \E v \in {Zero, R(6)} : SetKeyed(Key("wd", 0), v)
    \/ \E v \in {Zero, R(4)} : SetKeyed(Key("ht", 0), v)
    \/ \E v \in {Zero, R(25)} : SetPlain("ceiling_cov_per_bag", v)
    \/ \E v \in {Zero, R(100)} : SetPlain("blow_sq", v)
    \/ \E v \in {Zero, R(30)} : SetPlain("vault_sq", v)
    \/ RunEstimate

NextAlone ==
    \/ dw # NotRun /\ NextDrywallAlone
    \/ ins # NotRun /\ NextInsulationAlone

SpecAlone == InitAlone /\ [][NextAlone]_vars

(***************************************************************************)
(* SpecInsLabour: the insulation estimator on its own; the walls, one      *)
(* cathedral section, the number of sections, the labour rates and         *)
(* surcharges                                                              *)
(***************************************************************************)
NextInsLabour ==
    \/ \E v \in {Zero, R(40)} : SetPlain("wall_linear_feet", v)
    \/ \E v \in {Zero, R(8)} : SetPlain("wall_height", v)
    \/ \E n \in 1..2 : SetPlain("num_cat", n)
    \/ \E v \in {R(10)} : SetKeyed(Key("len", 0), v)
    \/ \E v \in {R(4)} : SetKeyed(Key("ht", 0), v)
    \/ \E v \in {Zero, R(2)} : SetPlain("wall_labour_rate", v)
    \/ \E v \in {Zero, R(50)} : SetPlain("ceiling_hourly", v)
    \/ \E v \in {Zero, R(3)} : SetPlain("ceiling_hours", v)
    \/ \E v \in {Zero, R(75)} : SetPlain("ceiling_flat_srchg", v)
    \/ \E v \in {Zero, R(60)} : SetPlain("cathedral_hourly", v)
    \/ \E v \in {Zero, Frac(3, 2)} : SetPlain("cathedral_hours", v)
    \/ \E v \in {Zero, R(40)} : SetPlain("cathedral_flat", v)
    \/ RunEstimate

SpecInsLabour == InitInsulation /\ [][NextInsLabour]_vars

(***************************************************************************)
(* SpecInsMaterials: the insulation estimator on its own; the batt         *)
(* materials and prices, the walls, one cathedral section, the blown-in    *)
(* ceiling, the wall labour rate                                           *)
(***************************************************************************)
NextInsMaterials ==
    \/ \E r \in {"R12", "R14"} : SetPlain("wall_r_value", r)
    \/ \E v \in {R(10)} : SetPlain("wall_price_per_bag", v)
    \/ \E r \in {"R12", "R20"} : SetPlain("cat_r_value", r)
    \/ \E v \in {R(12)} : SetPlain("cat_price_per_bag", v)
    \/ \E v \in {R(25)} : SetPlain("ceiling_cov_per_bag", v)
    \/ \E v \in {R(15)} : SetPlain("ceiling_price_per_bag", v)
    \/ \E v \in {R(40)} : SetPlain("wall_linear_feet", v)
    \/ \E v \in {R(8)} : SetPlain("wall_height", v)
    \/ \E v \in {R(11), R(13)} : SetKeyed(Key("len", 0), v)
    \/ \E v \in {R(4)} : SetKeyed(Key("ht", 0), v)
    \/ \E v \in {R(100)} : SetPlain("blow_sq", v)
    \/ \E v \in {R(30), R(130)} : SetPlain("vault_sq", v)
    \/ \E v \in {R(2)} : SetPlain("wall_labour_rate", v)
    \/ RunEstimate

SpecInsMaterials == InitInsulation /\ [][NextInsMaterials]_vars

(***************************************************************************)
(* SpecRuns: run after run of each estimator on its own, with the rooms,   *)
(* the resilient channel, the high parts and the cathedral sections        *)
(* growing and shrinking between the runs                                  *)
(***************************************************************************)
NextDrywallRuns ==
    \/ \E n \in 1..MaxRooms : SetPlain("room_count", n)
    \/ \E i \in 0..(MaxRooms - 1), v \in {R(10)} : SetKeyed(Key("len", i), v)
    \/ \E v \in {R(12)} : SetKeyed(Key("wid", 0), v)
    \/ \E b \in BOOLEAN : SetPlain("include_resilient_channel", b)
    \/ \E n \in 0..1 : SetPlain("num_high_parts", n)
    \/ \E v \in {R(11)} : SetKeyed(Key("hp_h", 0), v)
    \/ \E v \in {R(70)} : SetKeyed(Key("hp_a", 0), v)

NextInsulationRuns ==
    \/ \E n \in 1..2 : SetPlain("num_cat", n)
    \/ \E i \in 0..1, v \in {R(10)} : SetKeyed(Key("len", i), v)
    \/ \E i \in 0..1, v \in {R(4)} : SetKeyed(Key("ht", i), v)
    \/ \E v \in {R(40)} : SetPlain("wall_linear_feet", v)
    \/ \E v \in {R(8)} : SetPlain("wall_height", v)
    \/ RunEstimate

NextRuns ==
    \/ dw # NotRun /\ NextDrywallRuns
    \/ ins # NotRun /\ NextInsulationRuns

SpecRuns == InitAlone /\ [][NextRuns]_vars

(***************************************************************************)
(* SpecOptional: the insulation estimator on its own, with and without     *)
(* each optional library; walls, cathedral sections, a price and a rate    *)
(***************************************************************************)
NextOptional ==
    \/ \E v \in {R(40)} : SetPlain("wall_linear_feet", v)
    \/ \E v \in {R(8)} : SetPlain("wall_height", v)
    \/ \E n \in {16, 24} : SetPlain("wall_stud_spacing", n)
    \/ \E n \in 1..2 : SetPlain("num_cat", n)
    \/ \E v \in {R(10)} : SetKeyed(Key("len", 0), v)
    \/ \E v \in {R(4)} : SetKeyed(Key("ht", 0), v)
    \/ \E v \in {R(10)} : SetPlain("wall_price_per_bag", v)
    \/ \E v \in {R(2)} : SetPlain("wall_labour_rate", v)
    \/ RunEstimate

SpecOptional == InitOptional /\ [][NextOptional]_vars

(***************************************************************************)
(* SpecPdf: the PDF export of a summary of 1..MaxLines lines, one          *)
(* iteration of the loop at a time                                         *)
(***************************************************************************)
\* the canvas is open and the title drawn: the loop is about to start
InitPdf ==
    \E n \in 1..MaxLines, r \in {InsulationAlone(<<>>, Defaults, TRUE)} :
        /\ w = Defaults
        /\ ss = r.ss
        /\ dw = r.dw
        /\ ins = Display(Installed, r.ins)
        /\ lib = Installed
        /\ pdf = PdfOpen(n)

\* one iteration of "for line in summary_text.split('\n')"
DrawLine ==
    /\ pdf.i < pdf.n
    /\ pdf' = PdfStep(pdf)
    /\ UNCHANGED <<ss, w, dw, ins, lib>>

\* the loop is left: c.save()
SavePdf ==
    /\ pdf.i = pdf.n
    /\ ~pdf.saved
    /\ pdf' = PdfSave(pdf)
    /\ UNCHANGED <<ss, w, dw, ins, lib>>

NextPdf == DrawLine \/ SavePdf

\* the export is sequential code: it keeps running until it has saved the file
SpecPdf == InitPdf /\ [][NextPdf]_vars /\ WF_vars(NextPdf)

(***************************************************************************)
(* Properties                                                              *)
(***************************************************************************)
\* the areas of the openings entered for room i, summed
EnteredOpenings(i) == Add(SumAreas(room_windows(ss, w, i)), SumAreas(room_doors(ss, w, i)))

\* 2 x (length + width) x height of room i, from the values entered
EnteredGross(i) ==
    Mul(Mul(R(2), Add(ss[Key("len", i)], ss[Key("wid", i)])), room_height(ss, w, i))

\* C1: the net wall area of every room is never negative; it is the gross wall area
\* 2 x (length + width) x height minus the summed opening areas when that difference
\* is positive, and exactly 0 when the openings are at least the gross wall area
C1_NetWallArea ==
    \A n \in 1..Len(dw.rooms_data) :
        /\ Ge(dw.rooms_data[n].wall_area_net_ft2, Zero)
        /\ Gt(Sub(EnteredGross(n - 1), EnteredOpenings(n - 1)), Zero)
           => dw.rooms_data[n].wall_area_net_ft2
              = Sub(EnteredGross(n - 1), EnteredOpenings(n - 1))
        /\ Ge(EnteredOpenings(n - 1), EnteredGross(n - 1))
           => dw.rooms_data[n].wall_area_net_ft2 = Zero

\* a room with walls whose openings are larger than the walls
C1_Witness ==
    /\ Gt(EnteredGross(0), Zero)
    /\ Gt(EnteredOpenings(0), EnteredGross(0))
    /\ dw.rooms_data[1].wall_area_net_ft2 = Zero

\* C2 as stated: a room with zero length or zero width has total_area 0 and
\* total_with_waste 0
C2_ZeroSideZeroTotal ==
    \A n \in 1..Len(dw.rooms_data) :
        (ss[Key("len", n - 1)] = Zero \/ ss[Key("wid", n - 1)] = Zero)
        => /\ dw.rooms_data[n].total_area_ft2 = Zero
           /\ dw.rooms_data[n].total_with_waste_ft2 = Zero

\* C2: a room with zero length or zero width has no ceiling area, its total_area is
\* its net wall area and its total_with_waste is that area x (1 + waste% / 100); both
\* totals are 0 when the length and the width are both zero
C2_ZeroSideTotals ==
    \A n \in 1..Len(dw.rooms_data) :
        /\ (ss[Key("len", n - 1)] = Zero \/ ss[Key("wid", n - 1)] = Zero)
           => /\ dw.rooms_data[n].ceiling_area_ft2 = Zero
              /\ dw.rooms_data[n].total_area_ft2
                 = Max(Sub(EnteredGross(n - 1), EnteredOpenings(n - 1)), Zero)
              /\ dw.rooms_data[n].total_with_waste_ft2
                 = Div(Mul(dw.rooms_data[n].total_area_ft2, Add(R(100), waste_pct(w))),
                       R(100))
        /\ (ss[Key("len", n - 1)] = Zero /\ ss[Key("wid", n - 1)] = Zero)
           => /\ dw.rooms_data[n].total_area_ft2 = Zero
              /\ dw.rooms_data[n].total_with_waste_ft2 = Zero

\* a room of zero length with a ceiling, whose walls along the width are counted
C2_Witness ==
    /\ ss[Key("len", 0)] = Zero
    /\ Gt(ss[Key("wid", 0)], Zero)
    /\ ss[Key("ceil_inc", 0)]
    /\ Gt(waste_pct(w), Zero)
    /\ Gt(dw.rooms_data[1].total_with_waste_ft2, dw.rooms_data[1].total_area_ft2)

\* C3 as stated: the keys of the insulation widgets are disjoint from the keys of the
\* drywall widgets, and the insulation estimator runs in the script execution that ran
\* the drywall estimator
C3_Independent ==
    /\ DrywallKeys(ss, w) \cap InsulationKeys(w) = {}
    /\ ins.status # "DuplicateWidgetID"

\* the high parts entered that pass both thresholds
QualifyingParts ==
    {hp \in 0..(w.num_high_parts - 1) :
        Gt(ss[Key("hp_h", hp)], R(10)) /\ Gt(ss[Key("hp_a", hp)], R(64))}

\* the sum of the areas entered for the parts of a set
RECURSIVE AreaOfParts(_)
AreaOfParts(parts) ==
    IF parts = {} THEN Zero
    ELSE LET hp == CHOOSE x \in parts : TRUE
         IN  Add(ss[Key("hp_a", hp)], AreaOfParts(parts \ {hp}))

\* C4: a high part qualifies iff its height is above 10 ft and its area above 64 ft^2
\* (11 / 70 qualifies, 11 / 64 and 10 / 70 do not); the qualifying count is the number
\* of qualifying parts and the qualifying area the sum of the areas of those parts
C4_QualifyingParts ==
    /\ Qualifies(R(11), R(70))
    /\ ~Qualifies(R(11), R(50))
    /\ ~Qualifies(R(11), R(64))
    /\ ~Qualifies(R(10), R(70))
    /\ dw.qualifying_hp_count = Cardinality(QualifyingParts)
    /\ dw.qualifying_hp_area_ft2 = AreaOfParts(QualifyingParts)

\* two parts entered, one of them qualifying, the other passing one threshold only
C4_Witness ==
    /\ w.num_high_parts = 2
    /\ Cardinality(QualifyingParts) = 1
    /\ \E hp \in 0..1 : Gt(ss[Key("hp_h", hp)], R(10)) /\ ~Gt(ss[Key("hp_a", hp)], R(64))
    /\ dw.qualifying_hp_count = 1

\* C8: the high-part labour is the flat rate x the qualifying count when the flat rate
\* is above zero, whatever the per-ft^2 rate and also with no qualifying part, and the
\* per-ft^2 rate x the qualifying area otherwise
C8_HighPartLabour ==
    /\ Gt(w.labour_high_part_flat, Zero)
       => /\ dw.labour_high_parts_cost
             = Mul(w.labour_high_part_flat, R(dw.qualifying_hp_count))
          /\ \A v \in {Zero, R(2), R(5)} :
                labour_high_parts_cost(dw.qualifying_hp_count, dw.qualifying_hp_area_ft2,
                                       w.labour_high_part_flat, v)
                = dw.labour_high_parts_cost
    /\ ~Gt(w.labour_high_part_flat, Zero)
       => dw.labour_high_parts_cost
          = Mul(w.labour_high_part_rate_sqft, dw.qualifying_hp_area_ft2)

\* both rates set and a part qualifying: the flat rate is charged
C8_Witness ==
    /\ Gt(w.labour_high_part_flat, Zero)
    /\ Gt(w.labour_high_part_rate_sqft, Zero)
    /\ dw.qualifying_hp_count > 0
    /\ dw.labour_high_parts_cost = Mul(w.labour_high_part_flat, R(dw.qualifying_hp_count))

\* total_with_waste of the first n rooms of the table, summed
RECURSIVE WasteOfRooms(_)
WasteOfRooms(n) ==
    IF n = 0 THEN Zero
    ELSE Add(WasteOfRooms(n - 1), dw.rooms_data[n].total_with_waste_ft2)

\* k is ceil(x / area): the least whole number of sheets of that area covering x
IsCeilOf(k, x, area) ==
    /\ k[2] = 1
    /\ Ge(Mul(k, area), x)
    /\ Lt(Mul(Sub(k, One), area), x)

\* C6: total_waste_ft2 is the sum of total_with_waste over the rooms; the sheet count
\* is ceil(total_waste_ft2 / sheet_area) with sheet_area 32 for 4x8 and 48 for 4x12;
\* for the same rooms the count with 48 is never greater than the count with 32
C6_Sheets ==
    /\ dw.total_waste_ft2 = WasteOfRooms(Len(dw.rooms_data))
    /\ IsCeilOf(dw.takeoff.sheets, dw.total_waste_ft2,
                IF w.sheet_size = "4x8 (32 ft^2)" THEN R(32) ELSE R(48))
    /\ IsCeilOf(sheets(dw.total_waste_ft2, sheet_area("4x8 (32 ft^2)")),
                dw.total_waste_ft2, R(32))
    /\ IsCeilOf(sheets(dw.total_waste_ft2, sheet_area("4x12 (48 ft^2)")),
                dw.total_waste_ft2, R(48))
    /\ Le(sheets(dw.total_waste_ft2, sheet_area("4x12 (48 ft^2)")),
          sheets(dw.total_waste_ft2, sheet_area("4x8 (32 ft^2)")))

\* two rooms with area, 4x12 sheets, the last sheet cut, fewer sheets than with 4x8
C6_Witness ==
    /\ Len(dw.rooms_data) >= 2
    /\ Gt(dw.rooms_data[1].total_with_waste_ft2, Zero)
    /\ Gt(dw.rooms_data[2].total_with_waste_ft2, Zero)
    /\ w.sheet_size = "4x12 (48 ft^2)"
    /\ Gt(Mul(dw.takeoff.sheets, R(48)), dw.total_waste_ft2)
    /\ Lt(dw.takeoff.sheets, sheets(dw.total_waste_ft2, R(32)))

\* C7: the area labour is (total_waste_ft2 + qualifying high-part area) x the per-ft^2
\* rate when that rate is above zero, whatever the per-m^2 rate; with a zero per-ft^2
\* rate and a per-m^2 rate above zero it is that area in m^2 x the per-m^2 rate; with
\* both rates zero it is 0
C7_AreaLabour ==
    /\ dw.charge_area_ft2 = Add(dw.total_waste_ft2, dw.qualifying_hp_area_ft2)
    /\ Gt(w.labour_rate_sqft, Zero)
       => dw.labour_area_cost = Mul(w.labour_rate_sqft, dw.charge_area_ft2)
    /\ (w.labour_rate_sqft = Zero /\ Gt(w.labour_rate_sqm, Zero))
       => dw.labour_area_cost
          = Mul(w.labour_rate_sqm, Mul(dw.charge_area_ft2, Frac(9290304, 100000000)))
    /\ (w.labour_rate_sqft = Zero /\ w.labour_rate_sqm = Zero)
       => dw.labour_area_cost = Zero

\* both rates set, a wall and a qualifying high part: charged per ft^2
C7_Witness ==
    /\ Gt(w.labour_rate_sqft, Zero)
    /\ Gt(w.labour_rate_sqm, Zero)
    /\ Gt(dw.total_waste_ft2, Zero)
    /\ Gt(dw.qualifying_hp_area_ft2, Zero)
    /\ dw.labour_area_cost = Mul(w.labour_rate_sqft, dw.charge_area_ft2)

\* C9: subtotal = material subtotal + labour subtotal, cash price = subtotal, and
\* total-with-tax = subtotal x (1 + tax% / 100) for every tax%, 0 included; the total
\* with tax is never below the cash price and never falls when the tax% rises
C9_Totals ==
    /\ dw.labour_subtotal = Add(dw.labour_area_cost, dw.labour_high_parts_cost)
    /\ dw.subtotal_no_tax = Add(dw.material_subtotal, dw.labour_subtotal)
    /\ dw.cash_price = dw.subtotal_no_tax
    /\ dw.total_with_tax = Div(Mul(dw.subtotal_no_tax, Add(R(100), w.tax_pct)), R(100))
    /\ Ge(dw.total_with_tax, dw.cash_price)
    /\ \A t \in {Zero, R(13), R(25)} :
          /\ total_with_tax(dw.subtotal_no_tax, t)
             = Div(Mul(dw.subtotal_no_tax, Add(R(100), t)), R(100))
          /\ Ge(t, w.tax_pct) => Ge(total_with_tax(dw.subtotal_no_tax, t), dw.total_with_tax)

\* materials and labour both charged, no tax: the total is the cash price
C9_Witness ==
    /\ Gt(dw.material_subtotal, Zero)
    /\ Gt(dw.labour_subtotal, Zero)
    /\ w.tax_pct = Zero
    /\ dw.total_with_tax = dw.subtotal_no_tax

\* the widgets of the resilient-channel options
RcOptions ==
    {"include_resilient_channel", "rc_spacing_in", "rc_piece_length_ft", "cost_rc_piece"}

\* the material subtotal is the sum of the six quantity x unit cost products
MaterialSubtotalIsSum ==
    dw.material_subtotal
    = Add(Add(Add(Mul(dw.takeoff.sheets, w.cost_per_sheet),
                  Mul(dw.takeoff.mud_pails, w.cost_mud_pail)),
              Add(Mul(dw.takeoff.tape_rolls, w.cost_tape_roll),
                  Mul(dw.takeoff.screws_boxes, w.cost_screws_box))),
          Add(Mul(dw.takeoff.corner_bead_pcs, w.cost_corner_bead_piece),
              Mul(w.pot_light_count, w.pot_light_cost)))

\* a run after a change of resilient-channel options only leaves every result of the
\* estimator as it was (rc_loop_lf, the accumulator local to the room loop, aside)
RcOptionsChangeNothing ==
    (ss' = ss /\ \A f \in DOMAIN w \ RcOptions : w'[f] = w[f])
    => \A f \in DOMAIN dw \ {"rc_loop_lf"} : dw'[f] = dw[f]

\* C10: the material subtotal is sheets x sheet cost + mud pails x pail cost + tape
\* rolls x roll cost + screw boxes x box cost + corner-bead pieces x piece cost + pot
\* lights x cost per light, and the resilient-channel options (include flag, spacing,
\* piece length, cost per piece) leave every quantity, cost, subtotal and total unchanged
C10_Materials == []MaterialSubtotalIsSum /\ [][RcOptionsChangeNothing]_vars

\* every material charged, and a channel with a cost over a ceiling that takes it
C10_Witness ==
    /\ \A n \in 1..6 : Gt(dw.materials_breakdown[n][3], Zero)
    /\ w.include_resilient_channel
    /\ Gt(w.cost_rc_piece, Zero)
    /\ Gt(dw.rc_loop_lf, Zero)
    /\ dw.rc_pieces = Zero

\* each of the five drywall quantities is 0 when what it is divided by is 0
DrywallQuantitiesGuarded ==
    /\ sheets(dw.total_waste_ft2, Zero) = Zero
    /\ mud_pails(dw.takeoff.mud_gal, Zero) = Zero
    /\ tape_rolls(dw.total_waste_ft2, Zero) = Zero
    /\ screws_boxes(dw.takeoff.screws_qty, Zero) = Zero
    /\ corner_bead_pcs(dw.takeoff.corner_bead_lf, Zero) = Zero

\* each of the five insulation quantities is 0 when what it is divided by is 0
InsulationQuantitiesGuarded ==
    /\ wall_bags(ins.wall_area, Zero) = Zero
    /\ cat_bags(ins.total_cat_area, buffered_cov(Zero)) = Zero
    /\ ceiling_bags(ins.ceiling_area, Zero) = Zero
    /\ w.ceiling_cov_per_bag = Zero => ins.ceiling_bags = Zero
    /\ wall_batts(w.wall_linear_feet, Zero) = Zero
    /\ \A n \in 1..Len(ins.cat_sections) : cat_batts(ins.cat_sections, Zero)[n] = Zero

\* C5: sheets, mud pails, tape rolls, screw boxes, corner-bead pieces, wall bags,
\* cathedral bags, ceiling bags, wall batts and cathedral batts are 0 when the rate,
\* coverage or size they are divided by is zero, and no run ends in a division by zero
C5_NoDivisionByZero ==
    /\ dw # NotRun => dw.status = "ok" /\ DrywallQuantitiesGuarded
    /\ ins.status \notin {"not_run", "idle"}
       => ins.status = "ok" /\ InsulationQuantitiesGuarded

\* an estimate over a blown-in area with no coverage per bag entered
C5_Witness ==
    /\ ins.status = "ok"
    /\ w.ceiling_cov_per_bag = Zero
    /\ Gt(ins.ceiling_area, Zero)
    /\ Gt(ins.total_cat_area, Zero)
    /\ ins.ceiling_bags = Zero

\* C11: the insulation labour total is wall labour (wall area x rate) + area labour
\* ((wall area + cathedral area) x rate) + ceiling labour (hourly x hours + flat
\* surcharge) + cathedral surcharge ((hourly x hours + flat) x number of sections): the
\* wall area is charged twice at the wall labour rate
C11_LabourTotal ==
    ins.status = "ok"
    => /\ ins.wall_area = Mul(w.wall_linear_feet, w.wall_height)
       /\ ins.wall_lab = Mul(ins.wall_area, w.wall_labour_rate)
       /\ ins.area_lab = Mul(Add(ins.wall_area, ins.total_cat_area), w.wall_labour_rate)
       /\ ins.ceil_lab = Add(Mul(w.ceiling_hourly, w.ceiling_hours), w.ceiling_flat_srchg)
       /\ ins.cat_surch
          = Mul(Add(Mul(w.cathedral_hourly, w.cathedral_hours), w.cathedral_flat),
                R(w.num_cat))
       /\ ins.lab_total
          = Add(Add(ins.wall_lab, ins.area_lab), Add(ins.ceil_lab, ins.cat_surch))
       /\ ins.lab_total
          = Add(Add(Mul(Mul(R(2), ins.wall_area), w.wall_labour_rate),
                    Mul(ins.total_cat_area, w.wall_labour_rate)),
                Add(ins.ceil_lab, ins.cat_surch))

\* an estimate with walls, a cathedral section of two, and every labour component
C11_Witness ==
    /\ ins.status = "ok"
    /\ w.num_cat = 2
    /\ Gt(ins.wall_lab, Zero)
    /\ Gt(ins.total_cat_area, Zero)
    /\ Gt(ins.area_lab, ins.wall_lab)
    /\ Gt(ins.ceil_lab, w.ceiling_flat_srchg)
    /\ Gt(w.ceiling_flat_srchg, Zero)
    /\ Gt(ins.cat_surch, Mul(R(2), w.cathedral_flat))
    /\ Gt(w.cathedral_flat, Zero)

\* C12: the insulation material total is wall + cathedral + ceiling material cost, the
\* tax-inclusive total is (material total + labour total) x 1.05 and the buffered total
\* is the tax-inclusive total x 1.10, so for every input the buffered total is
\* (material + labour) x 1.155
C12_Totals ==
    ins.status = "ok"
    => /\ ins.mat_total = Add(Add(ins.wall_cost, ins.cat_cost), ins.ceiling_mat_cost)
       /\ ins.total_tax = Mul(Add(ins.mat_total, ins.lab_total), Frac(105, 100))
       /\ ins.total_buf = Mul(ins.total_tax, Frac(110, 100))
       /\ ins.total_buf = Mul(Add(ins.mat_total, ins.lab_total), Frac(1155, 1000))

\* an estimate with the three material costs and labour
C12_Witness ==
    /\ ins.status = "ok"
    /\ Gt(ins.wall_cost, Zero)
    /\ Gt(ins.cat_cost, Zero)
    /\ Gt(ins.ceiling_mat_cost, Zero)
    /\ Gt(ins.lab_total, Zero)
    /\ Gt(ins.total_buf, ins.total_tax)

\* the coverage and pieces of the chosen wall and cathedral batts
WallSpec == MATERIAL_SPECS[w.wall_r_value][w.wall_width]

CatSpec == MATERIAL_SPECS[w.cat_r_value][w.cat_width]

\* C13: cathedral bags = ceil(total cathedral area / (coverage per bag x 1.10)), wall
\* bags = ceil(wall area / coverage per bag) and blown-in bags = ceil(ceiling area /
\* coverage per bag) with the unbuffered coverage; pieces = bags x pieces per bag and
\* material cost = bags x price per bag
C13_Bags ==
    ins.status = "ok"
    => /\ IsCeilOf(ins.wall_bags, ins.wall_area, WallSpec.coverage_per_bag)
       /\ IsCeilOf(ins.cat_bags, ins.total_cat_area,
                   Mul(CatSpec.coverage_per_bag, Frac(110, 100)))
       /\ w.ceiling_cov_per_bag # Zero
          => IsCeilOf(ins.ceiling_bags, ins.ceiling_area, w.ceiling_cov_per_bag)
       /\ ins.wall_pieces = Mul(ins.wall_bags, R(WallSpec.pieces_per_bag))
       /\ ins.cat_pieces = Mul(ins.cat_bags, R(CatSpec.pieces_per_bag))
       /\ ins.wall_cost = Mul(ins.wall_bags, w.wall_price_per_bag)
       /\ ins.cat_cost = Mul(ins.cat_bags, w.cat_price_per_bag)
       /\ ins.ceiling_mat_cost = Mul(ins.ceiling_bags, w.ceiling_price_per_bag)

\* 320 sq ft of wall at 100 sq ft per bag is 4 bags; a cathedral area of 104 sq ft at
\* 100 sq ft per bag is 1 bag with the buffer (2 without); 100 sq ft of ceiling at 25 is 4
C13_Witness ==
    /\ ins.status = "ok"
    /\ ins.wall_area = R(320) /\ WallSpec.coverage_per_bag = R(100) /\ ins.wall_bags = R(4)
    /\ ins.wall_pieces = R(80) /\ ins.wall_cost = R(40)
    /\ ins.total_cat_area = R(104) /\ CatSpec.coverage_per_bag = R(100)
    /\ ins.cat_bags = R(1) /\ ins.cat_cost = R(12)
    /\ ins.ceiling_area = R(100) /\ ins.ceiling_bags = R(4) /\ ins.ceiling_mat_cost = R(60)

\* C14: the blown-in ceiling area is max(blow_sq - vault_sq, 0): never negative, 0
\* whenever the vaulted exclusion is at least the blown-in area, and then the ceiling
\* bags and the ceiling material cost are 0
C14_CeilingArea ==
    ins.status = "ok"
    => /\ ins.ceiling_area = Max(Sub(w.blow_sq, w.vault_sq), Zero)
       /\ Ge(ins.ceiling_area, Zero)
       /\ Ge(w.vault_sq, w.blow_sq)
          => /\ ins.ceiling_area = Zero
             /\ ins.ceiling_bags = Zero
             /\ ins.ceiling_mat_cost = Zero

\* an exclusion of 130 sq ft against 100 sq ft blown in, with a coverage and a price
C14_Witness ==
    /\ ins.status = "ok"
    /\ w.blow_sq = R(100) /\ w.vault_sq = R(130)
    /\ Gt(w.ceiling_cov_per_bag, Zero) /\ Gt(w.ceiling_price_per_bag, Zero)
    /\ ins.ceiling_bags = Zero

\* C15: the results of a run of either estimator are a function of the widget values of
\* that run alone: the same inputs give the same areas, quantities, costs and totals,
\* and nothing an earlier run accumulated (rooms, resilient-channel feet, qualifying
\* high parts, cathedral area, session state) is left in a later run's results
C15_PureRuns ==
    /\ dw # NotRun
       => /\ dw = run_drywall_estimator(ss, w)
          /\ Len(dw.rooms_data) = w.room_count
          /\ dw.rc_loop_lf = rc_loop_lf(ss, w)
          /\ dw.qualifying_hp_count = HighParts(ss, w).qualifying_hp_count
    /\ ins # NotRun /\ ins.status # "idle"
       => /\ ins = Display(lib, Estimate(ss, w))
          /\ Len(ins.cat_sections) = w.num_cat
          /\ ins.total_cat_area = total_cat_area(cat_sections(ss, w))

\* a run with one room after the runs with three: channel and a qualifying high part
C15_Witness ==
    /\ dw # NotRun
    /\ w.room_count = 1
    /\ Gt(dw.rc_loop_lf, Zero)
    /\ dw.qualifying_hp_count = 1
    /\ Gt(dw.total_ft2, Zero)

\* the numeric results of an estimate
NumericFields ==
    {"wall_bags", "cat_bags", "ceiling_bags", "wall_pieces", "cat_pieces", "wall_batts",
     "cat_batts", "wall_cost", "cat_cost", "ceiling_mat_cost", "wall_lab", "area_lab",
     "ceil_lab", "cat_surch", "mat_total", "lab_total", "total_tax", "total_buf"}

Numeric(d) == [f \in NumericFields |-> d[f]]

\* every diagram of the estimate d shows what
AllDiagrams(d, what) == \A n \in 1..Len(d.diagrams) : d.diagrams[n] = what

\* C16: without matplotlib or without reportlab "Run Estimate" still completes: the
\* diagrams and the chart, or the PDF export, are replaced by a notice, no error is
\* raised, and every numeric result is the one computed with both libraries installed
C16_OptionalLibraries ==
    ins.status # "idle"
    => /\ ins.status = "ok"
       /\ Numeric(ins) = Numeric(Display(Installed, Estimate(ss, w)))
       /\ Len(ins.diagrams) = w.num_cat
       /\ IF lib.plt THEN ins.chart = "pyplot" /\ AllDiagrams(ins, "pyplot")
          ELSE ins.chart = "info" /\ AllDiagrams(ins, "info")
       /\ IF lib.rl_canvas THEN ins.pdf_export = "download_button" /\ pdf.saved
          ELSE ins.pdf_export = "warning" /\ pdf = NoPdf

\* an estimate of walls and two cathedral sections with neither library installed
C16_Witness ==
    /\ ~lib.plt /\ ~lib.rl_canvas
    /\ ins.status = "ok"
    /\ Gt(ins.total_buf, Zero)
    /\ Gt(ins.wall_batts, Zero)
    /\ Len(ins.diagrams) = 2
    /\ ins.chart = "info"
    /\ ins.pdf_export = "warning"

\* the lines drawn so far are the first lines of the summary, each once and in order
DrawnInOrder ==
    /\ Len(pdf.drawn) = pdf.i
    /\ pdf.i <= pdf.n
    /\ \A k \in 1..Len(pdf.drawn) : pdf.drawn[k].line = k

\* no line is drawn below the bottom margin
AboveMargin == \A k \in 1..Len(pdf.drawn) : pdf.drawn[k].y >= 50

\* a line follows the line before it 20 lower on the same page, unless that would be
\* below 50: then, and only then, it is at the top of the next page
PageBreaks ==
    \A k \in 2..Len(pdf.drawn) :
        IF pdf.drawn[k - 1].y - 20 < 50
        THEN /\ pdf.drawn[k].page = pdf.drawn[k - 1].page + 1
             /\ pdf.drawn[k].y = LETTER_HEIGHT - 50
        ELSE /\ pdf.drawn[k].page = pdf.drawn[k - 1].page
             /\ pdf.drawn[k].y = pdf.drawn[k - 1].y - 20

\* the file is saved with every line of the summary drawn, as the loop run in one go
AllDrawn ==
    /\ pdf.saved
    /\ Len(pdf.drawn) = pdf.n
    /\ pdf = PdfLoop(PdfOpen(pdf.n))

\* C17: the PDF loop draws the lines of a summary of any length in their order, 20
\* lower per line within a page and never below 50; it starts a new page exactly when
\* the position after a line is below 50 and continues at the page height minus 50;
\* it ends with every line drawn exactly once
C17_PdfLoop ==
    /\ [](DrawnInOrder /\ AboveMargin /\ PageBreaks)
    /\ [](pdf.saved => AllDrawn)
    /\ <>[]AllDrawn

\* a summary that fills two pages and continues on a third, saved
C17_Witness ==
    /\ pdf.saved
    /\ pdf.n >= 70
    /\ Len(pdf.drawn) = pdf.n
    /\ pdf.drawn[34].page = 1 /\ pdf.drawn[34].y = 52
    /\ pdf.drawn[35].page = 2 /\ pdf.drawn[35].y = LETTER_HEIGHT - 50
    /\ pdf.drawn[69].page = 2 /\ pdf.drawn[69].y = 62
    /\ pdf.drawn[70].page = 3

====
